---------------------------- MODULE Spec2Model ----------------------------
(***************************************************************************)
(* A model of three parts of abipy:                                        *)
(*                                                                         *)
(*   - abipy/core/fields.py: DensityReader.read_density and the            *)
(*     spin-resolved quantities of Density (SpecDen), ScalarField.export   *)
(*     (SpecExport) and the sum and difference of fields (SpecField);      *)
(*   - abipy/integration_tests/test_optic.py: the script of                *)
(*     test_optic_flow driving a flow of tasks (SpecFlow);                 *)
(*   - abipy/electrons/lobster.py: the parsers of the files of Lobster     *)
(*     (SpecLobster).                                                      *)
(*                                                                         *)
(* Python indices are kept 0-based: datar is a function on 0..nspden-1 and *)
(* a field on the mesh is a function on the index triples of its shape.    *)
(* Densities are integers.  Every value of a file is even, so that the     *)
(* true division datar[0]/2 of nelect_updown is exact in the integers.     *)
(***************************************************************************)
EXTENDS Integers, Sequences, FiniteSets, TLC

VARIABLES
    \* ---- fields.py
    file,       \* the netCDF file opened by DensityReader: dimensions and "density"
    den,        \* what read_density returned for it (NotRead before the call)
    call,       \* the last method or property evaluated on the Density, with its result
    fld_a,      \* the left operand a of a + b and a - b
    fld_b,      \* the right operand b
    fld_res,    \* the last of a + b, a - b evaluated, with its result
    \* ---- lobster.py
    lobster,    \* the file given to from_file: its kind, its path and its lines
    parsed,     \* what from_file returned for it (NotRead before the call)
    \* ---- test_optic.py
    pc,         \* the line test_optic_flow is about to execute
    manager,    \* fwp.manager
    works,      \* the works of the flow, in registration order; a work is its list of tasks
    ddk_work,   \* the ddk_work object while it is not yet registered in the flow
    deps,       \* task -> the tasks it depends on
    status,     \* task -> status
    task_manager, \* task -> the manager that runs it
    finalized,  \* work index -> work.finalized
    allocated,  \* number of works flow.allocate() has allocated
    pickled,    \* number of works in the last pickle dump
    it,         \* position of the running for loop
    cur,        \* the loop variable `task` (NoTask outside the loops)
    ddk_nodes   \* the list built at line 130 (its length is all that is used)

denvars  == <<file, den, call>>
fieldvars == <<fld_a, fld_b, fld_res>>
lobvars  == <<lobster, parsed>>
othervars == <<denvars, fieldvars, lobvars>>   \* all but the variables of test_optic.py
flowvars == <<pc, manager, works, ddk_work, deps, status, task_manager, finalized,
              allocated, pickled, it, cur, ddk_nodes>>
vars     == <<file, den, call, fld_a, fld_b, fld_res, lobster, parsed,
              pc, manager, works, ddk_work, deps, status, task_manager, finalized,
              allocated, pickled, it, cur, ddk_nodes>>

(***************************************************************************)
(*                    PART 1: abipy/core/fields.py                         *)
(***************************************************************************)

\* Bounds of the model.
MaxRho == 1          \* a file holds the values 0, 2, .., 2*MaxRho at each point
MeshDv == 1          \* mesh.dv, the volume element of the mesh
CellVolume == 2      \* structure.volume, the volume of the unit cell

\* 1 / bohr_to_angstrom**3 = 6.748..., rounded to an integer: the factor by which
\* `rhor /= (bohr_to_angstrom ** 3)` multiplies a density.
inv_bohr_to_angstrom3 == 7

\* (nfft1, nfft2, nfft3) of the files: two points along the first axis, so that the
\* transposition of the axes moves them.
FileShape == <<2, 1, 1>>

RhoValues == {2 * k : k \in 0..MaxRho}

\* The index triples of an array of the given shape.
Points(shape) == (0..(shape[1] - 1)) \X (0..(shape[2] - 1)) \X (0..(shape[3] - 1))

Ok(v)    == [exc |-> "none", val |-> v]
Raise(e) == [exc |-> e, val |-> <<>>]

NotRead == Raise("not read")
\* The argument spin of get_nelect: <<>> is None, <<s>> is the integer s.
NoSpin  == <<>>
NoCall  == [op |-> "none", spin |-> NoSpin, ret |-> Raise("no call")]
NoFile  == [cplex_den |-> 0, nspinor |-> 0, nsppol |-> 0, nspden |-> 0, density |-> <<>>]

\* The variables of the operands of a + b and of lobster.py while that part is not used.
NoField     == [cls |-> "none"]
NoLobster   == [kind |-> "none"]
FieldIdle   == fld_a = NoField /\ fld_b = NoField /\ fld_res = NoCall
LobsterIdle == lobster = NoLobster /\ parsed = NotRead

\* Sum of f over the finite set S.
RECURSIVE SumOver(_, _)
SumOver(f, S) ==
    IF S = {} THEN 0
    ELSE LET p == CHOOSE q \in S : TRUE IN f[p] + SumOver(f, S \ {p})

\* Pointwise arithmetic of numpy on two fields of the same mesh.
FieldAdd(a, b) == [p \in DOMAIN a |-> a[p] + b[p]]
FieldSub(a, b) == [p \in DOMAIN a |-> a[p] - b[p]]

\* transpose_last3dims, as ScalarField.__init__ documents it: (z,x,y) --> (x,y,z).
transposed_shape(shape) == <<shape[2], shape[3], shape[1]>>
transpose_last3dims(arr, shape) ==
    [p \in Points(transposed_shape(shape)) |-> arr[<<p[3], p[1], p[2]>>]]

\* ScalarField.__init__ / Density.__init__: datar is given as its nspden components.
\* A component that the reshape to (nspden,) + mesh.shape cannot find is an error
\* of numpy (ValueError).
NewDensity(nspinor, nsppol, nspden, datar, shape, iorder) ==
    [nspinor |-> nspinor, nsppol |-> nsppol, nspden |-> nspden,
     shape  |-> IF iorder = "f" THEN transposed_shape(shape) ELSE shape,
     datar  |-> [i \in 0..(nspden - 1) |->
                    IF iorder = "f" THEN transpose_last3dims(datar[i], shape)
                    ELSE datar[i]]]

\* rhor /= (bohr_to_angstrom ** 3)
to_angstrom3(rhor) ==
    [i \in DOMAIN rhor |-> [p \in DOMAIN rhor[i] |-> rhor[i][p] * inv_bohr_to_angstrom3]]

\* The branch nspden == 2 of read_density: total = rhor[0].copy();
\* rhor[0] = rhor[1]; rhor[1] = total - rhor[1]
BadSwap_total_up(rhor) ==
    LET total == rhor[0]
        r1    == [rhor EXCEPT ![0] = rhor[1]]
    IN  [r1 EXCEPT ![1] = total]
swap_total_up(rhor) ==
    LET total == rhor[0]
        r1    == [rhor EXCEPT ![0] = rhor[1]]
    IN  [r1 EXCEPT ![1] = FieldSub(total, r1[1])]

\* DensityReader.read_density
read_density(f) ==
    IF f.nspden \notin {1, 2, 4} THEN Raise("RuntimeError")
    ELSE LET rhor == IF f.nspden = 2 THEN swap_total_up(f.density) ELSE f.density
         IN  IF f.cplex_den = 1
             THEN Ok(NewDensity(f.nspinor, f.nsppol, f.nspden, to_angstrom3(rhor),
                                FileShape, "f"))
             ELSE Raise("NotImplementedError")

\* ScalarField.is_collinear
is_collinear(d) == d.nspinor = 1

\* Mesh3D.integrate of one field: the sum over the mesh times the volume element.
integrate(f) == MeshDv * SumOver(f, DOMAIN f)

\* Mesh3D.zeros
zeros(shape) == [p \in Points(shape) |-> 0]

\* Density.get_nelect; spin is NoSpin (None), <<0>> or <<1>>.
get_nelect(d, spin) ==
    IF is_collinear(d)
    THEN LET nelect == [i \in 0..(d.nspden - 1) |-> integrate(d.datar[i])]
         IN  IF spin = NoSpin THEN Ok(SumOver(nelect, DOMAIN nelect))
             ELSE IF spin[1] \in DOMAIN nelect THEN Ok(nelect[spin[1]])
             ELSE Raise("IndexError")
    ELSE Ok(integrate(d.datar[0]))

\* Density.total_rhor
BadTotal_rhor(d) ==
    IF is_collinear(d)
    THEN IF d.nsppol = 1
         THEN IF d.nspden = 2 THEN Raise("NotImplementedError") ELSE Ok(d.datar[0])
         ELSE IF d.nsppol = 2
         THEN IF 1 \in DOMAIN d.datar THEN Ok(FieldSub(d.datar[0], d.datar[1]))
              ELSE Raise("IndexError")
         ELSE Raise("ValueError")
    ELSE Raise("NotImplementedError")
total_rhor(d) ==
    IF is_collinear(d)
    THEN IF d.nsppol = 1
         THEN IF d.nspden = 2 THEN Raise("NotImplementedError") ELSE Ok(d.datar[0])
         ELSE IF d.nsppol = 2
         THEN IF 1 \in DOMAIN d.datar THEN Ok(FieldAdd(d.datar[0], d.datar[1]))
              ELSE Raise("IndexError")
         ELSE Raise("ValueError")
    ELSE Raise("NotImplementedError")

\* Density.total_rhor_as_density: the exception of total_rhor propagates.
total_rhor_as_density(d) ==
    LET t == total_rhor(d)
    IN  IF t.exc # "none" THEN t
        ELSE Ok(NewDensity(1, 1, 1, [i \in {0} |-> t.val], d.shape, "c"))

\* Density.magnetization_field; datar[1:] is the tuple of the components after the first.
magnetization_field(d) ==
    IF is_collinear(d)
    THEN IF d.nsppol = 1 /\ d.nspden = 1 THEN Ok(zeros(d.shape))
         ELSE IF 1 \in DOMAIN d.datar THEN Ok(FieldSub(d.datar[0], d.datar[1]))
         ELSE Raise("IndexError")
    ELSE Ok([i \in 1..(d.nspden - 1) |-> d.datar[i]])

\* Density.magnetization: the magnetization field integrated over the mesh (a number
\* for a collinear density, whose magnetization field is one field).
magnetization(d) ==
    LET m == magnetization_field(d)
    IN  IF m.exc # "none" THEN m ELSE Ok(integrate(m.val))

\* Density.zeta: fact = np.where(total_rhor > 1e-16, 1 / total_rhor, 0.0), then
\* magnetization * fact.  The value at a point is kept as the fraction <<n, q>> = n/q.
\* The densities of the model are integers: total_rhor > 1e-16 is total_rhor > 0.
zeta(d) ==
    LET t == total_rhor(d) IN
    IF t.exc # "none" THEN t
    ELSE LET m == magnetization(d) IN
         IF m.exc # "none" THEN m
         ELSE Ok([p \in DOMAIN t.val |->
                     IF t.val[p] > 0 THEN <<m.val, t.val[p]>> ELSE <<0, 1>>])

\* numpy: an array times a number.
FieldScale(a, k) == [p \in DOMAIN a |-> a[p] * k]

\* Density.to_chgcar.  filename is <<>> (None) or <<name>>.  The Chgcar object is kept
\* as its data_dict, with the set of the paths write_file was called with.  With
\* nspinor == 1 and nsppol not in (1, 2) no branch binds data_dict and the call of
\* Chgcar fails (UnboundLocalError).
BadTo_chgcar(d, filename) ==
    LET myrhor == [i \in DOMAIN d.datar |-> FieldScale(d.datar[i], CellVolume)]
        chgcar(data_dict) ==
            Ok([data |-> data_dict,
                written |-> IF filename = <<>> THEN {} ELSE {filename[1]}])
    IN  IF d.nspinor = 1
        THEN IF d.nsppol = 1 THEN chgcar([total |-> myrhor[0]])
             ELSE IF d.nsppol = 2
             THEN IF 1 \in DOMAIN myrhor
                  THEN chgcar([total |-> FieldAdd(myrhor[0], myrhor[1]),
                               diff  |-> FieldSub(myrhor[1], myrhor[0])])
                  ELSE Raise("IndexError")
             ELSE Raise("UnboundLocalError")
        ELSE Raise("NotImplementedError")
to_chgcar(d, filename) ==
    LET myrhor == [i \in DOMAIN d.datar |-> FieldScale(d.datar[i], CellVolume)]
        chgcar(data_dict) ==
            Ok([data |-> data_dict,
                written |-> IF filename = <<>> THEN {} ELSE {filename[1]}])
    IN  IF d.nspinor = 1
        THEN IF d.nsppol = 1 THEN chgcar([total |-> myrhor[0]])
             ELSE IF d.nsppol = 2
             THEN IF 1 \in DOMAIN myrhor
                  THEN chgcar([total |-> FieldAdd(myrhor[0], myrhor[1]),
                               diff  |-> FieldSub(myrhor[0], myrhor[1])])
                  ELSE Raise("IndexError")
             ELSE Raise("UnboundLocalError")
        ELSE Raise("NotImplementedError")

\* Density.nelect_updown; datar[0]/2 is exact, every value being even.
BadNelect_updown(d) ==
    IF ~is_collinear(d) THEN Ok(<<"None", "None">>)
    ELSE IF d.nsppol = 1
    THEN IF d.nspden = 2 THEN Raise("NotImplementedError")
         ELSE LET n == integrate(d.datar[0])
              IN  Ok(<<n, n>>)
    ELSE IF 1 \in DOMAIN d.datar
         THEN Ok(<<integrate(d.datar[0]), integrate(d.datar[1])>>)
         ELSE Raise("IndexError")
nelect_updown(d) ==
    IF ~is_collinear(d) THEN Ok(<<"None", "None">>)
    ELSE IF d.nsppol = 1
    THEN IF d.nspden = 2 THEN Raise("NotImplementedError")
         ELSE LET n == integrate([p \in DOMAIN d.datar[0] |-> d.datar[0][p] \div 2])
              IN  Ok(<<n, n>>)
    ELSE IF 1 \in DOMAIN d.datar
         THEN Ok(<<integrate(d.datar[0]), integrate(d.datar[1])>>)
         ELSE Raise("IndexError")

\* The files: every combination of dimensions a netCDF file can hold, within the bounds.
Files ==
    UNION { [cplex_den : {1, 2}, nspinor : {1, 2}, nsppol : {1, 2, 3}, nspden : {n},
             density : [0..(n - 1) -> [Points(FileShape) -> RhoValues]]]
            : n \in 1..4 }


(***************************************************************************)
(*          PART 2: abipy/integration_tests/test_optic.py                  *)
(*                                                                         *)
(* The script of test_optic_flow is modelled line by line.  The classes    *)
(* it drives (AbinitFlow, Workflow, BandStructureWorkflow, the tasks and   *)
(* the managers) are modelled from the way the test uses them and from     *)
(* what it asserts of them: a task is started as a process by its manager  *)
(* and waited for, and the external binary is taken to run to completion.  *)
(***************************************************************************)

MaxNcpus == 2        \* bound: fwp.manager runs a task on 1..MaxNcpus cpus

\* The three directions of the DDK datasets (make_inputs: for dir in range(3)).
NumDdk == 3

NoTask    == "none"
NoManager == [qtype |-> "none", mpi_ncpus |-> 0]
Managers  == [qtype : {"shell", "slurm"}, mpi_ncpus : 1..MaxNcpus]

\* The statuses of a task, in the order in which a task goes through them.
StatusOrder == <<"S_INIT", "S_SUB", "S_RUN", "S_DONE", "S_OK">>
Rank(s) == CHOOSE i \in 1..Len(StatusOrder) : StatusOrder[i] = s
Reached(s, t) == Rank(s) >= Rank(t)

RECURSIVE Flatten(_)
Flatten(ws) == IF ws = <<>> THEN <<>> ELSE Head(ws) \o Flatten(Tail(ws))

\* AbinitFlow.iflat_tasks: the tasks of the works, work after work.
iflat_tasks(ws) == Flatten(ws)

\* Task.start: the manager launches the process of a task that was not started.
start(st, t) == IF st[t] = "S_INIT" THEN [st EXCEPT ![t] = "S_SUB"] ELSE st
\* Task.wait: blocks until the process of a started task has ended.
wait(st, t) == IF st[t] \in {"S_SUB", "S_RUN"} THEN [st EXCEPT ![t] = "S_DONE"] ELSE st
\* Task.start_and_wait
start_and_wait(st, t) == wait(start(st, t), t)

\* AbinitFlow.check_status on the statuses: a task that is done and whose output
\* is in its directory becomes S_OK.
check_status(st) == [t \in DOMAIN st |-> IF st[t] = "S_DONE" THEN "S_OK" ELSE st[t]]
\* ... and on the works: a work all of whose tasks are S_OK is finalized (on_all_ok).
check_finalized(ws, st, fin) ==
    [w \in DOMAIN ws |-> fin[w] \/ \A i \in DOMAIN ws[w] : st[ws[w][i]] = "S_OK"]

\* AbinitFlow.all_ok: every task of every work is S_OK.
all_ok_of(ws, st) == \A w \in DOMAIN ws : \A i \in DOMAIN ws[w] : st[ws[w][i]] = "S_OK"
all_ok == all_ok_of(works, status)

\* AbinitFlow.register_work
register_work(ws, work) == Append(ws, work)
\* AbinitFlow.register_task: the task goes in a new work, registered in the flow.
register_task(ws, t) == register_work(ws, <<t>>)

\* TaskManager.to_shell_manager(mpi_ncpus=n)
to_shell_manager(m, n) == [qtype |-> "shell", mpi_ncpus |-> n]

\* A task just created: registered with its dependencies and its manager.
NewTask(t, d, m) ==
    /\ deps' = (t :> d) @@ deps
    /\ status' = (t :> "S_INIT") @@ status
    /\ task_manager' = (t :> m) @@ task_manager

DdkTask(i) == CASE i = 1 -> "ddk1" [] i = 2 -> "ddk2" [] OTHER -> "ddk3"

\* The state of the flow variables while no test runs.
FlowIdle ==
    /\ pc = "idle" /\ manager = NoManager /\ works = <<>> /\ ddk_work = <<>>
    /\ deps = <<>> /\ status = <<>> /\ task_manager = <<>> /\ finalized = <<>>
    /\ allocated = 0 /\ pickled = 0 /\ it = 0 /\ cur = NoTask /\ ddk_nodes = <<>>

\* Lines 93-95: the inputs are made and the flow is created, empty.
InitFlow ==
    /\ file = NoFile /\ den = NotRead /\ call = NoCall /\ FieldIdle /\ LobsterIdle
    /\ pc = "L97" /\ manager \in Managers /\ works = <<>> /\ ddk_work = <<>>
    /\ deps = <<>> /\ status = <<>> /\ task_manager = <<>> /\ finalized = <<>>
    /\ allocated = 0 /\ pickled = 0 /\ it = 0 /\ cur = NoTask /\ ddk_nodes = <<>>

\* Lines 97-98: bands_work = BandStructureWorkflow(scf_inp, nscf_inp), whose nscf
\* task depends on its scf task; flow.register_work(bands_work).
L97 ==
    /\ pc = "L97"
    /\ deps' = ("scf" :> {}) @@ ("nscf" :> {"scf"}) @@ deps
    /\ status' = ("scf" :> "S_INIT") @@ ("nscf" :> "S_INIT") @@ status
    /\ task_manager' = ("scf" :> manager) @@ ("nscf" :> manager) @@ task_manager
    /\ works' = register_work(works, <<"scf", "nscf">>)
    /\ finalized' = Append(finalized, FALSE)
    /\ it' = 1
    /\ pc' = "L101"
    /\ UNCHANGED <<othervars, manager, ddk_work, allocated, pickled, cur, ddk_nodes>>

\* Lines 100-102: ddk_work = Workflow(); one DDK task per input, each registered
\* with deps={bands_work.nscf_task: "WFK"}.
L101 ==
    /\ pc = "L101"
    /\ IF it <= NumDdk
       THEN /\ NewTask(DdkTask(it), {"nscf"}, manager)
            /\ ddk_work' = Append(ddk_work, DdkTask(it))
            /\ it' = it + 1
            /\ pc' = "L101"
       ELSE /\ pc' = "L104"
            /\ it' = 0
            /\ UNCHANGED <<deps, status, task_manager, ddk_work>>
    /\ UNCHANGED <<othervars, manager, works, finalized, allocated, pickled, cur, ddk_nodes>>

\* Line 104: flow.register_work(ddk_work)
L104 ==
    /\ pc = "L104"
    /\ works' = register_work(works, ddk_work)
    /\ finalized' = Append(finalized, FALSE)
    /\ pc' = "L105"
    /\ UNCHANGED <<othervars, manager, ddk_work, deps, status, task_manager, allocated,
                   pickled, it, cur, ddk_nodes>>

\* Lines 105 and 123: flow.allocate()
Allocate(here, next) ==
    /\ pc = here
    /\ allocated' = Len(works)
    /\ pc' = next
    /\ UNCHANGED <<othervars, manager, works, ddk_work, deps, status, task_manager,
                   finalized, pickled, it, cur, ddk_nodes>>

\* Lines 106 and 124: flow.build_and_pickle_dump(); the for loop that follows starts.
BuildAndPickleDump(here, next) ==
    /\ pc = here
    /\ pickled' = Len(works)
    /\ it' = 1
    /\ pc' = next
    /\ UNCHANGED <<othervars, manager, works, ddk_work, deps, status, task_manager,
                   finalized, allocated, cur, ddk_nodes>>

L105 == Allocate("L105", "L106")
L106 == BuildAndPickleDump("L106", "L109")

\* Line 109: for task in flow.iflat_tasks()
BadTasks_L109 ==
    LET ts == iflat_tasks(works) IN [i \in DOMAIN ts |-> ts[Len(ts) + 1 - i]]
tasks_L109 == iflat_tasks(works)
\* Line 126: for task in flow[-1]
tasks_L126 == works[Len(works)]

\* The head of a for loop over the list tasks: the next task, or the end of the loop.
ForTask(here, tasks, body, after) ==
    /\ pc = here
    /\ IF it <= Len(tasks)
       THEN cur' = tasks[it] /\ pc' = body
       ELSE cur' = NoTask /\ pc' = after
    /\ UNCHANGED <<othervars, manager, works, ddk_work, deps, status, task_manager,
                   finalized, allocated, pickled, it, ddk_nodes>>

\* Lines 110 and 127: task.start_and_wait()
BadStartOnly(here, next) ==
    /\ pc = here
    /\ status' = start(status, cur)
    /\ pc' = next
    /\ UNCHANGED <<othervars, manager, works, ddk_work, deps, task_manager, finalized,
                   allocated, pickled, it, cur, ddk_nodes>>
StartAndWait(here, next) ==
    /\ pc = here
    /\ status' = start_and_wait(status, cur)
    /\ pc' = next
    /\ UNCHANGED <<othervars, manager, works, ddk_work, deps, task_manager, finalized,
                   allocated, pickled, it, cur, ddk_nodes>>

\* Lines 111 and 128: assert task.status == task.S_DONE
AssertDone(here, loop) ==
    /\ pc = here
    /\ IF status[cur] = "S_DONE"
       THEN pc' = loop /\ it' = it + 1
       ELSE pc' = "AssertionError" /\ it' = it
    /\ UNCHANGED <<othervars, manager, works, ddk_work, deps, status, task_manager,
                   finalized, allocated, pickled, cur, ddk_nodes>>

L109 == ForTask("L109", tasks_L109, "L110", "L113")
L110 == StartAndWait("L110", "L111")
L111 == AssertDone("L111", "L109")

\* Lines 113 and 143: flow.check_status()
BadNoCheckStatus(here, next) ==
    /\ pc = here
    /\ pc' = next
    /\ UNCHANGED <<othervars, manager, works, ddk_work, deps, status, task_manager,
                   finalized, allocated, pickled, it, cur, ddk_nodes>>
CheckStatus(here, next) ==
    /\ pc = here
    /\ status' = check_status(status)
    /\ finalized' = check_finalized(works, status', finalized)
    /\ pc' = next
    /\ UNCHANGED <<othervars, manager, works, ddk_work, deps, task_manager, allocated,
                   pickled, it, cur, ddk_nodes>>

\* Lines 114 and 146: assert flow.all_ok
AssertAllOk(here, next) ==
    /\ pc = here
    /\ pc' = IF all_ok THEN next ELSE "AssertionError"
    /\ UNCHANGED <<othervars, manager, works, ddk_work, deps, status, task_manager,
                   finalized, allocated, pickled, it, cur, ddk_nodes>>

L113 == CheckStatus("L113", "L114")
L114 == AssertAllOk("L114", "L117")

\* Lines 117-122: shell_manager = fwp.manager.to_shell_manager(mpi_ncpus=1);
\* optic_task1 = OpticTask(optic_input, nscf_node=bands_work.nscf_task,
\* ddk_nodes=ddk_work, manager=shell_manager); flow.register_task(optic_task1)
BadL117 ==
    /\ pc = "L117"
    /\ NewTask("optic", {"nscf"} \cup {ddk_work[i] : i \in DOMAIN ddk_work},
               to_shell_manager(manager, 1))
    /\ works' = [works EXCEPT ![Len(works)] = Append(@, "optic")]
    /\ pc' = "L123"
    /\ UNCHANGED <<othervars, manager, ddk_work, finalized, allocated, pickled, it, cur,
                   ddk_nodes>>
L117 ==
    /\ pc = "L117"
    /\ NewTask("optic", {"nscf"} \cup {ddk_work[i] : i \in DOMAIN ddk_work},
               to_shell_manager(manager, 1))
    /\ works' = register_task(works, "optic")
    /\ finalized' = Append(finalized, FALSE)
    /\ pc' = "L123"
    /\ UNCHANGED <<othervars, manager, ddk_work, allocated, pickled, it, cur, ddk_nodes>>

L123 == Allocate("L123", "L124")
L124 == BuildAndPickleDump("L124", "L126")
L126 == ForTask("L126", tasks_L126, "L127", "L130")
L127 == StartAndWait("L127", "L128")
L128 == AssertDone("L128", "L126")

\* Lines 130-132: ddk_nodes = [task.outdir.has_abiext("1WF") for task in ddk_work];
\* assert len(ddk_nodes) == len(ddk_work)
L130 ==
    /\ pc = "L130"
    /\ ddk_nodes' = [i \in DOMAIN ddk_work |-> <<ddk_work[i], "1WF">>]
    /\ pc' = IF Len(ddk_nodes') = Len(ddk_work) THEN "L143" ELSE "AssertionError"
    /\ UNCHANGED <<othervars, manager, works, ddk_work, deps, status, task_manager,
                   finalized, allocated, pickled, it, cur>>

\* Lines 143-144: flow.check_status(); flow.show_status()
BadL143 == BadNoCheckStatus("L143", "L145")
L143 == CheckStatus("L143", "L145")

\* Line 145: assert all(work.finalized for work in flow)
L145 ==
    /\ pc = "L145"
    /\ pc' = IF \A w \in DOMAIN finalized : finalized[w] THEN "L146" ELSE "AssertionError"
    /\ UNCHANGED <<othervars, manager, works, ddk_work, deps, status, task_manager,
                   finalized, allocated, pickled, it, cur, ddk_nodes>>

L146 == AssertAllOk("L146", "done")

NextFlow ==
    \/ L97 \/ L101 \/ L104 \/ L105 \/ L106 \/ L109 \/ L110 \/ L111 \/ L113 \/ L114
    \/ L117 \/ L123 \/ L124 \/ L126 \/ L127 \/ L128 \/ L130 \/ L143 \/ L145 \/ L146

SpecFlow == InitFlow /\ [][NextFlow]_vars

(***************************************************************************)
(*              The specification of PART 1 (fields.py)                    *)
(***************************************************************************)

InitDen ==
    /\ file \in Files /\ den = NotRead /\ call = NoCall
    /\ FieldIdle /\ LobsterIdle /\ FlowIdle

\* Density.from_file: with DensityReader(filepath) as r: return r.read_density(cls=cls)
from_file ==
    /\ den = NotRead
    /\ den' = read_density(file)
    /\ UNCHANGED <<file, call, fieldvars, lobvars, flowvars>>

Evaluate(op, spin, ret) ==
    /\ den.exc = "none"
    /\ call' = [op |-> op, spin |-> spin, ret |-> ret]
    /\ UNCHANGED <<file, den, fieldvars, lobvars, flowvars>>

Eval_total_rhor            == Evaluate("total_rhor", NoSpin, total_rhor(den.val))
Eval_total_rhor_as_density == Evaluate("total_rhor_as_density", NoSpin,
                                       total_rhor_as_density(den.val))
Eval_magnetization_field   == Evaluate("magnetization_field", NoSpin,
                                       magnetization_field(den.val))
Eval_nelect_updown         == Evaluate("nelect_updown", NoSpin, nelect_updown(den.val))
Eval_zeta                  == Evaluate("zeta", NoSpin, zeta(den.val))
\* to_chgcar(filename): the argument is kept in the field spin of the call.
Eval_to_chgcar             == \E filename \in {<<>>, <<"CHGCAR">>} :
                                  Evaluate("to_chgcar", filename,
                                           to_chgcar(den.val, filename))
Eval_get_nelect            == \E spin \in {NoSpin, <<0>>, <<1>>} :
                                  Evaluate("get_nelect", spin, get_nelect(den.val, spin))

NextDen ==
    \/ from_file
    \/ Eval_total_rhor
    \/ Eval_total_rhor_as_density
    \/ Eval_magnetization_field
    \/ Eval_nelect_updown
    \/ Eval_get_nelect
    \/ Eval_zeta
    \/ Eval_to_chgcar

SpecDen == InitDen /\ [][NextDen]_vars


(***************************************************************************)
(*              PART 3: ScalarField.export (fields.py)                     *)
(*                                                                         *)
(* A string is the sequence of its pieces: a piece is ".", "/", a blank or *)
(* a word, a non-empty run of other characters ("p" and "xsf" stand for    *)
(* the words).  "./p.xsf" is << ".", "/", "p", ".", "xsf" >>.               *)
(***************************************************************************)

MaxLen == 5          \* bound: a filename has at most MaxLen pieces

Pieces == {".", "/", " ", "p", "xsf"}
Filenames == UNION {[1..n -> Pieces] : n \in 0..MaxLen}

\* str.strip(): without the leading and trailing whitespace.
RECURSIVE lstrip(_)
lstrip(str) == IF str # <<>> /\ Head(str) = " " THEN lstrip(Tail(str)) ELSE str
RECURSIVE rstrip(_)
rstrip(str) ==
    IF str # <<>> /\ str[Len(str)] = " " THEN rstrip(SubSeq(str, 1, Len(str) - 1))
    ELSE str
strip(str) == lstrip(rstrip(str))

\* str.split(sep): the list of the strings between the occurrences of sep.
RECURSIVE split(_, _)
split(str, sep) ==
    IF \A i \in DOMAIN str : str[i] # sep THEN <<str>>
    ELSE LET i == CHOOSE k \in DOMAIN str :
                      str[k] = sep /\ \A j \in 1..(k - 1) : str[j] # sep
         IN  <<SubSeq(str, 1, i - 1)>> \o split(SubSeq(str, i + 1, Len(str)), sep)

\* tempfile.mkstemp(suffix=suffix, text=True)[1]: the path of a file that did not
\* exist before ("tmp" is not a piece of any filename of the model).
mkstemp(suffix) == <<"tmp">> \o suffix

\* ScalarField.export.  The outcome is the exception raised, whether a temporary file
\* was created, the path opened for writing (<<>> when none was) and the format of
\* the data written to it ("none" when nothing was written).  The Visualizer that is
\* returned is built from the path alone.
Outcome(e, tmp, path, fmt) ==
    [exc |-> e, val |-> [tempfile |-> tmp, opened |-> path, format |-> fmt]]
export(filename) ==
    IF \A i \in DOMAIN filename : filename[i] # "."
    THEN Outcome("ValueError", FALSE, <<>>, "none")
    ELSE LET tokens == split(strip(filename), ".")
             ext    == tokens[Len(tokens)]
             tmp    == tokens[1] = <<>>
             path   == IF tmp THEN mkstemp(<<".">> \o ext) ELSE filename
         IN  IF ext = <<"xsf">> THEN Outcome("none", tmp, path, "xsf")
             ELSE Outcome("NotImplementedError", tmp, path, "none")

InitExport ==
    /\ file = NoFile /\ den = NotRead /\ call = NoCall
    /\ FieldIdle /\ LobsterIdle /\ FlowIdle

\* field.export(filename): the argument is kept in the field spin of the call.
Export ==
    /\ call = NoCall
    /\ \E filename \in Filenames :
           call' = [op |-> "export", spin |-> filename, ret |-> export(filename)]
    /\ UNCHANGED <<file, den, fieldvars, lobvars, flowvars>>

NextExport == Export

SpecExport == InitExport /\ [][NextExport]_vars


(***************************************************************************)
(*        PART 4: ScalarField.__add__ and __sub__ (fields.py)              *)
(***************************************************************************)

\* The classes of the operands: Density is a subclass of ScalarField (line 346);
\* "ndarray" stands for an object that is no ScalarField.
FieldClasses == {"ScalarField", "Density"}
\* isinstance(obj, cls)
isinstance(obj, cls) == obj.cls = cls \/ (obj.cls = "Density" /\ cls = "ScalarField")

\* The values of a field at a point, the shapes of the meshes and the structures of
\* the operands.
FieldValues == {0, 1}
MeshShapes  == {<<1, 1, 1>>, <<1, 1, 2>>}
Structures  == {"Si", "GaAs"}

\* ScalarField.__init__ called on the class cls: the object has its class, its
\* dimensions, its structure, and the mesh of the shape of datar.
NewField(cls, nspinor, nsppol, nspden, datar, structure, shape) ==
    [cls |-> cls, nspinor |-> nspinor, nsppol |-> nsppol, nspden |-> nspden,
     structure |-> structure, mesh |-> shape,
     datar |-> [i \in 0..(nspden - 1) |-> datar[i]]]

ScalarFields ==
    UNION { { NewField(cls, nspinor, nsppol, nspden, datar, structure, shape) :
                cls \in FieldClasses, nspinor \in {1, 2}, nsppol \in {1, 2},
                structure \in Structures,
                datar \in [0..(nspden - 1) -> [Points(shape) -> FieldValues]] }
            : nspden \in {1, 2}, shape \in MeshShapes }

\* ScalarField._check_other
BadCheck_other(self, other) ==
    IF ~isinstance(other, self.cls) THEN Raise("TypeError")
    ELSE IF \/ self.nspinor # other.nspinor \/ self.nsppol # other.nsppol
            \/ self.nspden # other.nspden
            \/ self.mesh # other.mesh
         THEN Raise("ValueError")
         ELSE Ok(TRUE)
check_other(self, other) ==
    IF ~isinstance(other, self.cls) THEN Raise("TypeError")
    ELSE IF \/ self.nspinor # other.nspinor \/ self.nsppol # other.nsppol
            \/ self.nspden # other.nspden
            \/ self.structure # other.structure \/ self.mesh # other.mesh
         THEN Raise("ValueError")
         ELSE Ok(TRUE)

\* ScalarField.__add__
add(self, other) ==
    LET c == check_other(self, other) IN
    IF c.exc # "none" THEN c
    ELSE Ok(NewField(self.cls, self.nspinor, self.nsppol, self.nspden,
                     [i \in DOMAIN self.datar |-> FieldAdd(self.datar[i], other.datar[i])],
                     self.structure, self.mesh))

\* ScalarField.__sub__
sub(self, other) ==
    LET c == check_other(self, other) IN
    IF c.exc # "none" THEN c
    ELSE Ok(NewField(self.cls, self.nspinor, self.nsppol, self.nspden,
                     [i \in DOMAIN self.datar |-> FieldSub(self.datar[i], other.datar[i])],
                     self.structure, self.mesh))

InitField ==
    /\ fld_a \in ScalarFields
    /\ fld_b \in ScalarFields \cup {[cls |-> "ndarray"]}
    /\ fld_res = NoCall
    /\ file = NoFile /\ den = NotRead /\ call = NoCall
    /\ LobsterIdle /\ FlowIdle

\* a + b
Add ==
    /\ fld_res' = [op |-> "add", spin |-> NoSpin, ret |-> add(fld_a, fld_b)]
    /\ UNCHANGED <<fld_a, fld_b, denvars, lobvars, flowvars>>

\* a - b
Sub ==
    /\ fld_res' = [op |-> "sub", spin |-> NoSpin, ret |-> sub(fld_a, fld_b)]
    /\ UNCHANGED <<fld_a, fld_b, denvars, lobvars, flowvars>>

NextField == Add \/ Sub

SpecField == InitField /\ [][NextField]_vars


(***************************************************************************)
(*            PART 5: abipy/electrons/lobster.py                           *)
(*                                                                         *)
(* A file is kept as what the patterns of the parsers find in its lines.   *)
(* The cells of a table of numbers hold distinct numbers, so that the      *)
(* column an array was read from can be told from the array.  A python     *)
(* dictionary is a function on its keys; the nested keys of a tree() are   *)
(* kept as one tuple: total[(i, j)][s] is total[<<i, j, s>>] and           *)
(* partial[(i, j)][(o1, o2)][s] is partial[<<i, j, o1, o2, s>>].           *)
(***************************************************************************)

MaxPairs    == 2     \* bound: a COXPCAR file lists at most MaxPairs pairs
MaxEnergies == 2     \* bound: a table has at most MaxEnergies rows
MaxSites    == 2     \* bound: a DOSCAR file has at most MaxSites sites

\* The site indices of the files (1-based), with the element at each site.
SiteIndices == {1, 2}
type_of_site == <<"Ga", "As">>
\* The group of a pattern that did not take part in the match is None.
None == "None"
OrbitalLabels == {"s", "p"}

\* A path is the sequence of its pieces; the names looked for are pieces of their own.
\* 'name in filepath' is true when name is one of the pieces.
in_filepath(name, filepath) == \E i \in DOMAIN filepath : filepath[i] = name
CoxpPaths == { <<"COOPCAR.lobster">>, <<"run/", "COHPCAR.lobster", ".gz">>,
               <<"run/", "coxp.dat">> }
ICoxpPaths == { <<"ICOOPLIST.lobster">>, <<"run/", "ICOHPLIST.lobster", ".gz">>,
                <<"run/", "icoxp.dat">> }

\* The empty dictionary, and d[k] = v.
EmptyDict == <<>>
DictSet(d, k, v) == [x \in DOMAIN d \cup {k} |-> IF x = k THEN v ELSE d[x]]

\* A table of numbers with distinct cells, and data[:, c].
Table(rows, cols) == [e \in 0..(rows - 1) |-> [c \in 0..(cols - 1) |-> 100 * e + c]]
Column(data, c) == [e \in DOMAIN data |-> data[e][c]]

\* ---- COOPCAR.lobster / COHPCAR.lobster

\* The groups of pair_patt in a line "No.k:type1 index1[orbital1]->type2 index2[orbital2]".
\* Lobster writes the orbitals of both sites (an orbitalwise pair) or of none.
PairLines ==
    { <<type_of_site[i1], i1, o[1], type_of_site[i2], i2, o[2]>> :
          i1 \in SiteIndices, i2 \in SiteIndices,
          o \in (OrbitalLabels \X OrbitalLabels) \cup {<<None, None>>} }

\* The files at the given paths: the header (n_column_groups, n_spin, n_en_steps), the
\* lines of the pairs, one per column group after the first, and the table of the data.
CoxpFiles(paths) ==
    { [kind |-> "coxp", path |-> path,
       n_column_groups |-> Len(pairs) + 1, n_spin |-> n_spin,
       n_en_steps |-> MaxEnergies, pairs |-> pairs,
       data |-> Table(MaxEnergies, 1 + n_spin * (Len(pairs) + 1) * 2)] :
          path \in paths, n_spin \in {1, 2},
          pairs \in UNION {[1..n -> PairLines] : n \in 0..MaxPairs} }

\* Lines 182-199 for the spin s and the pair p, the j-th (from 0) of pairs_data.
BadStore_pair(new, data, base_index, s, j, p) ==
    LET index1 == p[2]
        index2 == p[5]
        cop == [single     |-> Column(data, base_index + 2 * (j + 1)),
                integrated |-> Column(data, base_index + 2 * (j + 1) + 1)]
    IN  IF p[3] # None
        THEN [new EXCEPT !.partial =
                 DictSet(DictSet(@, <<index1, index2, p[3], p[6], s>>, cop),
                         <<index2, index1, p[3], p[6], s>>, cop)]
        ELSE [new EXCEPT !.total =
                 DictSet(DictSet(@, <<index1, index2, s>>, cop),
                         <<index2, index1, s>>, cop)]
store_pair(new, data, base_index, s, j, p) ==
    LET index1 == p[2]
        index2 == p[5]
        cop == [single     |-> Column(data, base_index + 2 * (j + 1)),
                integrated |-> Column(data, base_index + 2 * (j + 1) + 1)]
    IN  IF p[3] # None
        THEN [new EXCEPT !.partial =
                 DictSet(DictSet(@, <<index1, index2, p[3], p[6], s>>, cop),
                         <<index2, index1, p[6], p[3], s>>, cop)]
        ELSE [new EXCEPT !.total =
                 DictSet(DictSet(@, <<index1, index2, s>>, cop),
                         <<index2, index1, s>>, cop)]

\* for j, p in enumerate(pairs_data): the first n pairs are stored.
RECURSIVE store_pairs(_, _, _, _, _, _)
store_pairs(new, data, base_index, s, pairs_data, n) ==
    IF n = 0 THEN new
    ELSE store_pair(store_pairs(new, data, base_index, s, pairs_data, n - 1),
                    data, base_index, s, n - 1, pairs_data[n])

\* for i, s in enumerate(spins): the first n spins are stored.
RECURSIVE store_spins(_, _, _, _, _)
store_spins(new, data, n_column_groups, pairs_data, n) ==
    IF n = 0 THEN new
    ELSE LET prev == store_spins(new, data, n_column_groups, pairs_data, n - 1)
             s == n - 1
             base_index == 1 + s * n_column_groups * 2
             avg == [single     |-> Column(data, base_index),
                     integrated |-> Column(data, base_index + 1)]
         IN  store_pairs([prev EXCEPT !.averaged = DictSet(@, s, avg)],
                         data, base_index, s, pairs_data, Len(pairs_data))

\* new.cop_type = "unknown"; if coop in filepath: "coop"; if cohp in filepath: "cohp"
cop_type(filepath, coop, cohp) ==
    LET t0 == "unknown"
        t1 == IF in_filepath(coop, filepath) THEN "coop" ELSE t0
    IN  IF in_filepath(cohp, filepath) THEN "cohp" ELSE t1

\* Coxp.from_file.  With no pair to read (n_pairs == 0) the loop over the lines of
\* the pairs never breaks and reads the file to its end: no number is left for the
\* table and reshape fails.
Coxp_from_file(f) ==
    LET n_pairs == f.n_column_groups - 1
        \* 0-based indexing
        pairs_data == [j \in DOMAIN f.pairs |->
                          <<f.pairs[j][1], f.pairs[j][2] - 1, f.pairs[j][3],
                            f.pairs[j][4], f.pairs[j][5] - 1, f.pairs[j][6]>>]
        type_of_index ==
            [i \in {pairs_data[j][2] : j \in DOMAIN pairs_data}
                     \cup {pairs_data[j][5] : j \in DOMAIN pairs_data} |->
                LET j == CHOOSE k \in DOMAIN pairs_data :
                             i \in {pairs_data[k][2], pairs_data[k][5]}
                IN  IF pairs_data[j][2] = i THEN pairs_data[j][1] ELSE pairs_data[j][4]]
        new == [filepath |-> f.path, type_of_index |-> type_of_index,
                energies |-> Column(f.data, 0),
                averaged |-> EmptyDict, total |-> EmptyDict, partial |-> EmptyDict]
    IN  IF n_pairs = 0 /\ f.n_en_steps > 0 THEN Raise("ValueError")
        ELSE LET filled == store_spins(new, f.data, f.n_column_groups, pairs_data,
                                       f.n_spin)
             IN  Ok([filepath |-> filled.filepath,
                     type_of_index |-> filled.type_of_index,
                     energies |-> filled.energies, averaged |-> filled.averaged,
                     total |-> filled.total, partial |-> filled.partial,
                     cop_type |-> cop_type(f.path, "COOPCAR.lobster", "COHPCAR.lobster"),
                     nsppol |-> Cardinality(DOMAIN filled.averaged)])


\* ---- ICOOPLIST.lobster / ICOHPLIST.lobster

\* The lines of the files: a line header_patt matches ("... for spin 1", group 1
\* being "over # bonds" or None) or a line data_patt matches (the indices of the two
\* sites, the average and, when its digits are split off, the number of bonds).
ICoxpLines ==
    [kind : {"header"}, spin : {1, 2}, over_bonds : BOOLEAN]
        \cup [kind : {"data"}, index1 : SiteIndices, index2 : SiteIndices,
              n_bonds : {<<>>, <<2>>}]
ICoxpFiles(paths) ==
    { [kind |-> "icoxp", path |-> path, lines |-> lines] :
          path \in paths,
          lines \in UNION {[1..n -> ICoxpLines] : n \in 0..MaxPairs} }

\* The loop over the lines of the file, for its first n lines.  The spin is <<>>
\* (None) until a header is read; the average of the line k is the number k.
RECURSIVE read_icoxp_lines(_, _)
read_icoxp_lines(lines, n) ==
    IF n = 0
    THEN [spin |-> <<>>, avg_num_bonds |-> FALSE,
          type_of_index |-> EmptyDict, values |-> EmptyDict]
    ELSE LET st == read_icoxp_lines(lines, n - 1)
             line == lines[n]
         IN  IF line.kind = "header"
             THEN [st EXCEPT !.spin = <<line.spin - 1>>,
                             !.avg_num_bonds = line.over_bonds]
             ELSE LET index1 == line.index1 - 1
                      index2 == line.index2 - 1
                      avg_data == [average |-> n, distance |-> n,
                                   n_bonds |-> line.n_bonds]
                  IN  [st EXCEPT
                         !.type_of_index =
                             DictSet(DictSet(@, index1, type_of_site[line.index1]),
                                     index2, type_of_site[line.index2]),
                         !.values =
                             DictSet(DictSet(@, <<index1, index2, st.spin>>, avg_data),
                                     <<index2, index1, st.spin>>, avg_data)]

\* ICoxp.from_file
ICoxp_from_file(f) ==
    LET st == read_icoxp_lines(f.lines, Len(f.lines))
    IN  Ok([filepath |-> f.path, values |-> st.values,
            type_of_index |-> st.type_of_index,
            cop_type |-> cop_type(f.path, "ICOOPLIST.lobster", "ICOHPLIST.lobster")])

\* ---- DOSCAR.lobster

\* The orbitals of a site, as its header line lists them (each orbital once).
OrbitalLists == { <<>>, <<"s">>, <<"p">>, <<"s", "p">>, <<"p", "s">> }

\* The rows of a block of the file: row e holds, after the energy, the cols - 1
\* numbers of the block numbered block (0 for the total DOS, i + 1 for the site i).
BlockRows(block, rows, cols) ==
    [e \in 1..rows |-> [c \in 1..cols |-> 1000 * block + 100 * (e - 1) + (c - 1)]]

\* The blocks of the sites from the site i on: a header line that ends with the
\* orbitals after its last ";", then the rows.
RECURSIVE SiteBlocks(_, _, _, _)
SiteBlocks(orbitals, i, n_energies, n_spin) ==
    IF i > Len(orbitals) THEN <<>>
    ELSE << <<"Z=", ";">> \o orbitals[i] >>
             \o BlockRows(i, n_energies, 1 + n_spin * Len(orbitals[i]))
             \o SiteBlocks(orbitals, i + 1, n_energies, n_spin)

\* The lines of a DOSCAR.lobster: the number of sites in the first line, four lines
\* of text, the number of energies third in the sixth line, the rows of the total
\* DOS (energy, and DOS and integrated DOS of each spin), then the blocks of the sites.
DosLines(orbitals, n_energies, n_spin) ==
    << <<Len(orbitals), Len(orbitals), 1, 0>>, <<"text">>, <<"text">>, <<"text">>,
       <<"text">>, <<10, 0, n_energies, 5, 1>> >>
        \o BlockRows(0, n_energies, 1 + 2 * n_spin)
        \o SiteBlocks(orbitals, 1, n_energies, n_spin)

DosFiles ==
    { [kind |-> "dos", path |-> <<"DOSCAR.lobster">>, orbitals |-> orbitals,
       n_energies |-> n_energies, n_spin |-> n_spin,
       lines |-> DosLines(orbitals, n_energies, n_spin)] :
          orbitals \in UNION {[1..n -> OrbitalLists] : n \in 0..MaxSites},
          n_energies \in 1..MaxEnergies, n_spin \in {1, 2} }

\* np.fromiter(d for l in lines for d in l.split()): the numbers of the lines, in a row.
RECURSIVE fromiter(_)
fromiter(lines) == IF lines = <<>> THEN <<>> ELSE Head(lines) \o fromiter(Tail(lines))

\* ndarray.reshape((rows, cols)) of a row of numbers (indices from 0).
reshape(flat, rows, cols) ==
    [e \in 0..(rows - 1) |-> [c \in 0..(cols - 1) |-> flat[e * cols + c + 1]]]

\* dos_data[lo:hi], the indices of python counting from 0 and hi being cut at the end.
Slice(dos_data, lo, hi) ==
    SubSeq(dos_data, lo + 1, IF hi > Len(dos_data) THEN Len(dos_data) ELSE hi)

\* line.rsplit(';', 1)[-1].split(): the words after the last ";" of the line.
orbitals_of(line) ==
    IF \A k \in DOMAIN line : line[k] # ";" THEN line
    ELSE LET last == CHOOSE k \in DOMAIN line :
                         line[k] = ";" /\ \A m \in (k + 1)..Len(line) : line[m] # ";"
         IN  SubSeq(line, last + 1, Len(line))

\* Lines 675-687 for the site i_site: its part of pdos.
BadSite_pdos(dos_data, n_energies, n_spin, i_site) ==
    LET i_first_line == 5 + (n_energies + 1) * (i_site + 1)
        orbitals == orbitals_of(dos_data[i_first_line + 1])
        cols == 1 + n_spin * Len(orbitals)
        flat == fromiter(Slice(dos_data, i_first_line + 1, i_first_line + 1 + n_energies))
        pdos_data == reshape(flat, n_energies, cols)
    IN  [k \in {i_site} \X {orbitals[o] : o \in DOMAIN orbitals} \X (0..(n_spin - 1)) |->
            LET i_orb == (CHOOSE o \in DOMAIN orbitals : orbitals[o] = k[2]) - 1
            IN  Column(pdos_data, k[3] + i_orb + 1)]
site_pdos(dos_data, n_energies, n_spin, i_site) ==
    LET i_first_line == 5 + (n_energies + 1) * (i_site + 1)
        orbitals == orbitals_of(dos_data[i_first_line + 1])
        cols == 1 + n_spin * Len(orbitals)
        flat == fromiter(Slice(dos_data, i_first_line + 1, i_first_line + 1 + n_energies))
        pdos_data == reshape(flat, n_energies, cols)
    IN  [k \in {i_site} \X {orbitals[o] : o \in DOMAIN orbitals} \X (0..(n_spin - 1)) |->
            LET i_orb == (CHOOSE o \in DOMAIN orbitals : orbitals[o] = k[2]) - 1
            IN  Column(pdos_data, k[3] + n_spin * i_orb + 1)]

\* for i_site in range(n_sites): the parts of the first n sites, in one dictionary.
RECURSIVE read_pdos(_, _, _, _)
read_pdos(dos_data, n_energies, n_spin, n) ==
    IF n = 0 THEN EmptyDict
    ELSE LET prev == read_pdos(dos_data, n_energies, n_spin, n - 1)
             site == site_pdos(dos_data, n_energies, n_spin, n - 1)
         IN  [k \in DOMAIN prev \cup DOMAIN site |->
                 IF k \in DOMAIN site THEN site[k] ELSE prev[k]]

\* LobsterDos.from_file; dos_data[i] of python is dos_data[i + 1] here.
LobsterDos_from_file(f) ==
    LET dos_data == f.lines
        n_sites == dos_data[1][1]
        n_energies == dos_data[6][3]
        n_spin == IF Len(dos_data[7]) = 3 THEN 1 ELSE 2
        tdos_data == reshape(fromiter(Slice(dos_data, 6, 6 + n_energies)),
                             n_energies, 1 + 2 * n_spin)
        total_dos == [spin \in 0..(n_spin - 1) |-> Column(tdos_data, 1 + 2 * spin)]
    IN  Ok([filepath |-> f.path, energies |-> Column(tdos_data, 0),
            total_dos |-> total_dos,
            pdos |-> read_pdos(dos_data, n_energies, n_spin, n_sites),
            nsppol |-> Cardinality(DOMAIN total_dos)])

\* ---- The specification of PART 5

InitLobster ==
    /\ lobster \in CoxpFiles(CoxpPaths) \cup ICoxpFiles(ICoxpPaths) \cup DosFiles
    /\ parsed = NotRead
    /\ file = NoFile /\ den = NotRead /\ call = NoCall
    /\ FieldIdle /\ FlowIdle

from_file_of(kind, ret) ==
    /\ lobster.kind = kind /\ parsed = NotRead
    /\ parsed' = ret
    /\ UNCHANGED <<lobster, denvars, fieldvars, flowvars>>

CoxpFromFile  == from_file_of("coxp", Coxp_from_file(lobster))
ICoxpFromFile == from_file_of("icoxp", ICoxp_from_file(lobster))
DosFromFile   == from_file_of("dos", LobsterDos_from_file(lobster))

NextLobster == CoxpFromFile \/ ICoxpFromFile \/ DosFromFile

SpecLobster == InitLobster /\ [][NextLobster]_vars


(***************************************************************************)
(*                     The claims about test_optic_flow                    *)
(***************************************************************************)

AllDdk == {DdkTask(i) : i \in 1..NumDdk}

C4_RegisterStep ==
    pc \in {"L117", "L123", "L124"} /\ pc' # pc =>
        /\ \A t \in DOMAIN status : status'[t] = status[t]
        /\ \A t \in {"scf", "nscf"} \cup AllDdk : Reached(status'[t], "S_DONE")
        /\ \A w \in DOMAIN works : works'[w] = works[w]
        /\ \A w \in DOMAIN finalized : finalized'[w] = finalized[w]
        /\ IF pc = "L117"
           THEN /\ Len(works') = Len(works) + 1
                /\ works'[Len(works')] = <<"optic">>
                /\ status'["optic"] = "S_INIT"
           ELSE works' = works /\ status' = status
        /\ ddk_work' = ddk_work /\ works'[2] = ddk_work'
        /\ ddk_work' = <<"ddk1", "ddk2", "ddk3">>

InAbipyConvention(f) ==
    [p \in Points(<<FileShape[2], FileShape[3], FileShape[1]>>) |->
        inv_bohr_to_angstrom3 * f[<<p[3], p[1], p[2]>>]]

\* C6 (as amended): a Density returned by read_density holds, for nspden == 2, the
\* spin-up density of the file (file component 1) in component 0 and the spin-down
\* density (file component 0 minus file component 1) in component 1, each converted
\* to abipy's units and axis order, so that their sum is the converted total of the
\* file; for nspden 1 or 4 it holds the converted components in the order of the file.
C6_ReadDensity ==
    den.exc = "none" =>
        LET d == den.val IN
        /\ d.nspden = file.nspden /\ DOMAIN d.datar = 0..(file.nspden - 1)
        /\ file.nspden = 2 =>
            /\ d.datar[0] = InAbipyConvention(file.density[1])
            /\ d.datar[1] = InAbipyConvention(
                   [p \in Points(FileShape) |-> file.density[0][p] - file.density[1][p]])
            /\ [p \in DOMAIN d.datar[0] |-> d.datar[0][p] + d.datar[1][p]]
                   = InAbipyConvention(file.density[0])
        /\ file.nspden \in {1, 4} =>
            \A i \in 0..(file.nspden - 1) : d.datar[i] = InAbipyConvention(file.density[i])

C6_Witness ==
    /\ den.exc = "none" /\ file.nspden = 2
    /\ file.density[1][<<0, 0, 0>>] # file.density[1][<<1, 0, 0>>]
    /\ file.density[0][<<1, 0, 0>>] # file.density[1][<<1, 0, 0>>]
    /\ den.val.datar[0][<<0, 0, 1>>] # 0

\* C6 as stated: the components of the Density are the arrays of the file themselves
\* (stated for the files whose total density is not zero everywhere).
C6_Original ==
    den.exc = "none" /\ (\E p \in Points(FileShape) : file.density[0][p] # 0) =>
        LET d == den.val IN
        /\ file.nspden = 2 =>
            /\ d.datar[0] = file.density[1]
            /\ d.datar[1] =
                   [p \in Points(FileShape) |-> file.density[0][p] - file.density[1][p]]
            /\ [p \in DOMAIN d.datar[0] |-> d.datar[0][p] + d.datar[1][p]]
                   = file.density[0]
        /\ file.nspden \in {1, 4} =>
            \A i \in 0..(file.nspden - 1) : d.datar[i] = file.density[i]

\* C7 as stated: magnetization_field is the zero field for a spin-unpolarized
\* calculation (nsppol = nspden = 1), datar[0] - datar[1] for a collinear
\* spin-polarized one and (datar[1], datar[2], datar[3]) for non-collinear magnetism.
C7_MagnetizationField ==
    call.op = "magnetization_field" =>
        LET d == den.val
            r == call.ret
        IN
        /\ d.nsppol = 1 /\ d.nspden = 1 =>
               r.exc = "none" /\ r.val = [p \in Points(d.shape) |-> 0]
        /\ d.nspinor = 1 /\ d.nspden = 2 =>
               /\ r.exc = "none"
               /\ r.val = [p \in Points(d.shape) |-> d.datar[0][p] - d.datar[1][p]]
        /\ d.nspinor = 2 /\ d.nspden = 4 =>
               r.exc = "none" /\ r.val = <<d.datar[1], d.datar[2], d.datar[3]>>

\* The total density C8 states for d, where it states one.
C8_HasTotal(d) ==
    /\ d.nspinor = 1
    /\ \/ d.nsppol = 1 /\ d.nspden # 2
       \/ d.nsppol = 2 /\ d.nspden >= 2
C8_Total(d) ==
    IF d.nsppol = 1 THEN d.datar[0]
    ELSE [p \in Points(d.shape) |-> d.datar[0][p] + d.datar[1][p]]

C9_Integral(f) == MeshDv * SumOver(f, DOMAIN f)

C9_Pair(d, r, maxden) ==
    /\ d.nspinor # 1 => r.exc = "none" /\ r.val = <<"None", "None">>
    /\ d.nspinor = 1 /\ r.exc = "none" =>
        /\ d.nsppol = 1 =>
            /\ r.val[1] = r.val[2]
            /\ 2 * r.val[1] = C9_Integral(d.datar[0])
        /\ d.nsppol # 1 =>
            /\ r.val[1] = C9_Integral(d.datar[0])
            /\ r.val[2] = C9_Integral(d.datar[1])
        /\ d.nspden <= maxden =>
            /\ get_nelect(d, NoSpin).exc = "none"
            /\ r.val[1] + r.val[2] = get_nelect(d, NoSpin).val

C10_GetNelect ==
    call.op = "get_nelect" /\ call.spin # NoSpin /\ den.val.nspinor = 1 =>
        LET ud == nelect_updown(den.val) IN
        call.ret.exc = "none" /\ ud.exc = "none" =>
            call.ret.val = ud.val[call.spin[1] + 1]

\* C11 as stated: zeta is the pointwise ratio of the magnetization to the total
\* density: where total_rhor(r) > 0, zeta(r) = magnetization_field(r) / total_rhor(r),
\* and zeta(r) = 0 at every other point (n/q = a/b is stated as n * b = a * q).
C11_Zeta ==
    call.op = "zeta" /\ call.ret.exc = "none" =>
        LET d == den.val
            t == total_rhor(d).val
            m == magnetization_field(d).val
            z == call.ret.val
        IN  \A p \in Points(d.shape) :
                IF t[p] > 0 THEN z[p][1] * t[p] = m[p] * z[p][2]
                ELSE z[p][1] = 0

\* What C12 says of a step that evaluates to_chgcar(filename).
C12_Step ==
    call'.op = "to_chgcar" /\ call' # call =>
        LET d == den
            r == call'.ret
            filename == call'.spin
            times_volume(f) == [p \in Points(d.val.shape) |-> f[p] * CellVolume]
        IN
        /\ den' = den
        /\ d.val.nspinor = 1 /\ d.val.nsppol = 1 =>
            /\ r.exc = "none" /\ DOMAIN r.val.data = {"total"}
            /\ r.val.data.total = times_volume(d.val.datar[0])
        /\ d.val.nspinor = 1 /\ d.val.nsppol = 2 /\ d.val.nspden >= 2 =>
            /\ r.exc = "none" /\ DOMAIN r.val.data = {"total", "diff"}
            /\ r.val.data.total =
                   times_volume(FieldAdd(d.val.datar[0], d.val.datar[1]))
            /\ r.val.data.diff =
                   times_volume(FieldSub(d.val.datar[0], d.val.datar[1]))
        /\ d.val.nspinor = 2 => r.exc = "NotImplementedError"
        /\ r.exc = "none" =>
               r.val.written = IF filename = <<>> THEN {} ELSE {filename[1]}

C13_Prefix(filename) ==
    LET str  == strip(filename)
        last == CHOOSE k \in DOMAIN str :
                    str[k] = "." /\ \A j \in (k + 1)..Len(str) : str[j] # "."
    IN  SubSeq(str, 1, last - 1)
C13_Ext(filename) ==
    LET str == strip(filename)
    IN  SubSeq(str, Len(C13_Prefix(filename)) + 2, Len(str))

\* A filename of the supported format: ".xsf", or a prefix that ends in a word,
\* followed by ".xsf".
C13_XsfName(filename) ==
    /\ \E i \in DOMAIN filename : filename[i] = "."
    /\ C13_Ext(filename) = <<"xsf">>
    /\ LET prefix == C13_Prefix(filename)
       IN  prefix = <<>> \/ prefix[Len(prefix)] = "p"

\* C13 as stated, for the filenames of the supported format: export(filename) uses a
\* new temporary file if and only if the prefix of the filename is empty (the
\* filename is ".xsf"); every other filename, a path such as "./p.xsf" included, is
\* the path the data is written to, in the format its extension names.
C13_Export ==
    call.op = "export" /\ C13_XsfName(call.spin) =>
        LET filename == call.spin
            r == call.ret
        IN
        /\ r.val.tempfile <=> C13_Prefix(filename) = <<>>
        /\ C13_Prefix(filename) # <<>> =>
            /\ r.val.opened = filename
            /\ C13_Ext(filename) = <<"xsf">> => r.exc = "none" /\ r.val.format = "xsf"

\* b's nspinor, nsppol, nspden, structure or mesh differs from a's.
C14_Differs(a1, b1) ==
    \/ a1.nspinor # b1.nspinor \/ a1.nsppol # b1.nsppol \/ a1.nspden # b1.nspden
    \/ a1.structure # b1.structure \/ a1.mesh # b1.mesh

\* What C14 says of a step that evaluates a + b or a - b.
C14_Step ==
    fld_res' # fld_res =>
        LET r == fld_res'.ret
            sign == IF fld_res'.op = "add" THEN 1 ELSE -1
            instance == fld_b.cls = fld_a.cls
                            \/ (fld_a.cls = "ScalarField" /\ fld_b.cls = "Density")
        IN
        /\ fld_res'.op \in {"add", "sub"}
        /\ fld_a' = fld_a /\ fld_b' = fld_b
        /\ ~instance => r.exc = "TypeError"
        /\ instance /\ C14_Differs(fld_a, fld_b) => r.exc = "ValueError"
        /\ instance /\ ~C14_Differs(fld_a, fld_b) =>
            /\ r.exc = "none"
            /\ r.val.cls = fld_a.cls
            /\ r.val.nspinor = fld_a.nspinor /\ r.val.nsppol = fld_a.nsppol
            /\ r.val.nspden = fld_a.nspden /\ r.val.structure = fld_a.structure
            /\ DOMAIN r.val.datar = 0..(fld_a.nspden - 1)
            /\ \A i \in 0..(fld_a.nspden - 1) :
                   /\ DOMAIN r.val.datar[i] = Points(fld_a.mesh)
                   /\ \A p \in Points(fld_a.mesh) :
                          r.val.datar[i][p] =
                              fld_a.datar[i][p] + sign * fld_b.datar[i][p]

\* C14: a + b and a - b raise TypeError when b is not an instance of the class of a,
\* and ValueError when b's nspinor, nsppol, nspden, structure or mesh differs from
\* a's; otherwise the result is a new object of the class of a with a's nspinor,
\* nsppol, nspden and structure whose datar is the elementwise sum or difference;
\* a and b are left as they were.
C14_AddSub == [][C14_Step]_vars

C14_Witness ==
    /\ fld_res.op = "sub" /\ fld_res.ret.exc = "none"
    /\ fld_a.cls = "ScalarField" /\ fld_b.cls = "Density"
    /\ fld_res.ret.val.cls = "ScalarField"
    /\ fld_a.nspden = 2 /\ fld_a.mesh = <<1, 1, 2>>
    /\ fld_res.ret.val.datar[1][<<0, 0, 0>>] = -1
    /\ fld_res.ret.val.datar[1][<<0, 0, 1>>] = 1

(***************************************************************************)
(*                       The claims about lobster.py                       *)
(***************************************************************************)

\* The COP of the j-th pair line (from 1) of the file f for the spin s: the two
\* columns of its column group, the group after that of the average, in the part of
\* the table of that spin.
C15_Cop(f, j, s) ==
    LET first == 1 + s * f.n_column_groups * 2 + 2 * j
    IN  [single     |-> [e \in 0..(f.n_en_steps - 1) |-> f.data[e][first]],
         integrated |-> [e \in 0..(f.n_en_steps - 1) |-> f.data[e][first + 1]]]

\* No pair line after the j-th is about the same two sites.
C15_LastOfPair(f, j) ==
    \A l \in (j + 1)..Len(f.pairs) :
        {f.pairs[l][2], f.pairs[l][5]} # {f.pairs[j][2], f.pairs[j][5]}

\* C15: after Coxp.from_file the site indices of the keys are those of the file minus
\* 1; total and partial are symmetric in the pair, partial with the two orbitals
\* exchanged; the data of a pair line with orbital labels are in partial and not in
\* total, those of a line without labels in total and not in partial.
C15_CoxpSymmetric ==
    lobster.kind = "coxp" /\ parsed.exc = "none" =>
        LET f == lobster
            total == parsed.val.total
            partial == parsed.val.partial
            spins == 0..(f.n_spin - 1)
        IN
        /\ {<<k[1], k[2]>> : k \in DOMAIN total} \cup {<<k[1], k[2]>> : k \in DOMAIN partial}
               = UNION { { <<f.pairs[j][2] - 1, f.pairs[j][5] - 1>>,
                           <<f.pairs[j][5] - 1, f.pairs[j][2] - 1>> } : j \in DOMAIN f.pairs }
        /\ DOMAIN parsed.val.type_of_index
               = UNION { {f.pairs[j][2] - 1, f.pairs[j][5] - 1} : j \in DOMAIN f.pairs }
        /\ \A k \in DOMAIN total :
               /\ <<k[2], k[1], k[3]>> \in DOMAIN total
               /\ total[<<k[2], k[1], k[3]>>] = total[k]
        /\ \A k \in DOMAIN partial :
               /\ <<k[2], k[1], k[4], k[3], k[5]>> \in DOMAIN partial
               /\ partial[<<k[2], k[1], k[4], k[3], k[5]>>] = partial[k]
        /\ \A j \in DOMAIN f.pairs : \A s \in spins :
               LET line == f.pairs[j] IN
               /\ line[3] # None /\ line[6] # None =>
                   /\ \A k \in DOMAIN total : total[k] # C15_Cop(f, j, s)
                   /\ C15_LastOfPair(f, j) =>
                          partial[<<line[2] - 1, line[5] - 1, line[3], line[6], s>>]
                              = C15_Cop(f, j, s)
               /\ line[3] = None /\ line[6] = None =>
                   /\ \A k \in DOMAIN partial : partial[k] # C15_Cop(f, j, s)
                   /\ C15_LastOfPair(f, j) =>
                          total[<<line[2] - 1, line[5] - 1, s>>] = C15_Cop(f, j, s)

C15_Witness ==
    /\ lobster.kind = "coxp" /\ parsed.exc = "none" /\ lobster.n_spin = 2
    /\ lobster.pairs = << <<"Ga", 1, None, "As", 2, None>>,
                          <<"Ga", 1, "s", "As", 2, "p">> >>
    /\ <<1, 0, "p", "s", 1>> \in DOMAIN parsed.val.partial
    /\ parsed.val.partial[<<1, 0, "p", "s", 1>>].single[1] = 111
    /\ parsed.val.total[<<1, 0, 0>>].integrated[0] = 4

\* C16 as stated: the cop_type of every Coxp and of every ICoxp that from_file
\* returns is "coop" or "cohp".
C16_CopType ==
    lobster.kind \in {"coxp", "icoxp"} /\ parsed.exc = "none" =>
        parsed.val.cop_type \in {"coop", "cohp"}

\* The number at the row e (from 0) and the column c (from 0) of a block of a
\* DOSCAR.lobster: block 0 is the total DOS, block i + 1 the site i.
C17_Cell(f, block, e, c) ==
    LET first == IF block = 0 THEN 6
                 ELSE 5 + (f.n_energies + 1) * block + 1
    IN  f.lines[first + e + 1][c + 1]

\* C17: LobsterDos.from_file yields energies of length n_energies, total_dos with the
\* keys 0..n_spin-1, pdos[site][orbital][spin] for every site, every orbital of the
\* header line of the site and every spin, each array as long as energies;
\* total_dos[spin] is the column 1 + 2*spin of the total block and
\* pdos[site][orb][spin] the column 1 + spin + n_spin*i_orb of the block of the site;
\* no two arrays of pdos are read from the same numbers, and the block of the site i
\* starts with its header at line 5 + (n_energies + 1)*(i + 1).
C17_LobsterDos ==
    lobster.kind = "dos" /\ parsed.exc = "none" =>
        LET f == lobster
            r == parsed.val
            n_sites == Len(f.orbitals)
            rows == 0..(f.n_energies - 1)
            spins == 0..(f.n_spin - 1)
            keys == UNION { {i} \X {f.orbitals[i + 1][o] : o \in DOMAIN f.orbitals[i + 1]}
                                \X spins : i \in 0..(n_sites - 1) }
        IN
        /\ DOMAIN r.energies = rows
        /\ \A e \in rows : r.energies[e] = C17_Cell(f, 0, e, 0)
        /\ DOMAIN r.total_dos = spins
        /\ \A spin \in spins :
               /\ DOMAIN r.total_dos[spin] = DOMAIN r.energies
               /\ \A e \in rows : r.total_dos[spin][e] = C17_Cell(f, 0, e, 1 + 2 * spin)
        /\ DOMAIN r.pdos = keys
        /\ \A i \in 0..(n_sites - 1) :
               /\ f.lines[5 + (f.n_energies + 1) * (i + 1) + 1]
                      = <<"Z=", ";">> \o f.orbitals[i + 1]
               /\ \A i_orb \in 0..(Len(f.orbitals[i + 1]) - 1) : \A spin \in spins :
                      LET arr == r.pdos[<<i, f.orbitals[i + 1][i_orb + 1], spin>>] IN
                      /\ DOMAIN arr = DOMAIN r.energies
                      /\ \A e \in rows :
                             arr[e] = C17_Cell(f, i + 1, e, 1 + spin + f.n_spin * i_orb)
        /\ \A k1 \in keys : \A k2 \in keys \ {k1} :
               \A e1 \in rows : \A e2 \in rows : r.pdos[k1][e1] # r.pdos[k2][e2]

C17_Witness ==
    /\ lobster.kind = "dos" /\ parsed.exc = "none"
    /\ lobster.n_spin = 2 /\ lobster.n_energies = 2
    /\ lobster.orbitals = << <<"s">>, <<"s", "p">> >>
    /\ parsed.val.pdos[<<1, "p", 1>>][1] = 2104
    /\ parsed.val.pdos[<<0, "s", 1>>][0] = 1002
    /\ parsed.val.total_dos[1][1] = 103

=============================================================================
